---- MODULE Spec2Model ----
(***************************************************************************)
(* Model of the Peppol portal client shell:                                *)
(*   src/src/lib/supabaseClient.ts        the service client initializer   *)
(*   src/src/components/DashboardShell.tsx the session gate                *)
(*   src/src/components/AuthForm.tsx       the auth form                   *)
(*                                                                         *)
(* JavaScript runs each handler to its next await in one event-loop turn,  *)
(* so every action below is one such turn: the synchronous start of a      *)
(* handler, or the continuation that runs when a service call settles.     *)
(* Strings that the code inspects character by character (the redirect     *)
(* parameter, the typed fields) are sequences of one-character strings.    *)
(***************************************************************************)
EXTENDS Integers, Sequences, FiniteSets, TLC

\* ---------------------------------------------------------------- bounds
\* Clock granularity in milliseconds, number of clock steps a behaviour may
\* take, how many steps old a snapshot found at page load may be, and the
\* wall-clock reading at page load.
TickMs == 10000
MaxTicks == 2
MaxAgeTicks == 4
T0 == 100000
\* Longest 'redirect' query value and longest typed field value.
MaxLen == 3
MaxFieldLen == 1

\* ------------------------------------------------------- program constants
FRESH_MS == 30000

Null == "null"
Undefined == "undefined"

Sessions == {"s1", "s2"}
RawErrors == {"raw: invalid JWT"}

\* (variant: the service's own error text is shown)
MsgVerify_Raw == "raw: invalid JWT"
MsgVerify == "We could not verify your session. Please refresh the page or sign in again."
MsgUnexpected == "Something went wrong while checking your session. Please try again."
MsgSignOut == "We could not sign you out right now. Please try again."
MsgSignOutUnexpected == "Something went wrong while signing you out. Please try again."

\* (variant: the login destination without the way back)
redirectTarget_NoParam == "/auth"
redirectTarget == "/auth?redirect=/dashboard"
LoginPath == "/auth"
\* The path the gate is served under, as its login redirect names it.
DashboardPage == "/dashboard"
Reload == "reload()"
NoNavigation == "none"

\* ------------------------------------------------------------ environment
EnvValues == {Undefined, "", "configured"}

VARIABLES
    supabaseUrl, supabaseAnonKey, client, page,
    lifecycle, isActive, status, session, error,
    storage, now, getSessionCall, lastReply, setItemThrew, signOutCall,
    location, getSessionCalls,
    form, mode, email, password, loading, oauthLoading, message, formError,
    redirectParam, href, redirectTo, submitCall, submitResult, oauthCall,
    turn, issued

gateVars == <<lifecycle, isActive, status, session, error, storage, now,
              getSessionCall, lastReply, setItemThrew, signOutCall, location,
              getSessionCalls>>
clientVars == <<supabaseUrl, supabaseAnonKey, client, page>>
authVars == <<form, mode, email, password, loading, oauthLoading, message,
              formError, redirectParam, href, redirectTo, submitCall,
              submitResult, oauthCall>>
\* turn names the handler or continuation that ran in the latest event-loop
\* turn; setItemThrew tells whether the latest sessionStorage.setItem threw.
\* issued counts the calls to the auth service that the latest turn made,
\* getSessionCalls the getSession calls made since the page was loaded; page
\* is the path of the loaded page.
vars == <<clientVars, gateVars, authVars, turn, issued>>

\* ------------------------------------------- sessionStorage and JSON values
\* The item stored under 'peppol_session_cached'.  kind "absent" is the null
\* that getItem returns for a missing key; "empty" is the empty string;
\* "garbage" is text that is not JSON; "null" and "number" are JSON texts of
\* those values; "object" is the JSON text of an object whose session and
\* timestamp members are as given (Undefined when the member is missing).
\* A missing timestamp member reads as undefined, which arithmetic turns
\* into NaN; NaN is the value NaN below (no Date.now() reading is negative).
NaN == -1
Item(k, s, t) == [kind |-> k, session |-> s, timestamp |-> t]
NoItem == Item("absent", Undefined, NaN)

\* (variant: the capture time is left out)
JSONstringify_NoTimestamp(sess, ts) == Item("object", sess, NaN)
JSONstringify(sess, ts) == Item("object", sess, ts)

Throw == [threw |-> TRUE, value |-> Undefined]
Return(v) == [threw |-> FALSE, value |-> v]

JSONparse(text) ==
    IF text.kind \in {"garbage", "empty"} THEN Throw ELSE Return(text)

\* parsed.timestamp and parsed.session: a property read of null throws, a
\* property read of a number yields undefined.
Member(parsed, name) ==
    IF parsed.kind = "null" THEN Throw
    ELSE IF parsed.kind = "object" THEN Return(parsed[name])
    ELSE Return(IF name = "timestamp" THEN NaN ELSE Undefined)

Truthy(v) == v \notin {Null, Undefined, ""}

\* now - cacheTime < 30000; the subtraction is NaN for a missing timestamp
\* and every comparison with NaN is false.
\* (variants: a window of 3 s, a test that a missing timestamp passes, and a
\* window that includes exactly 30 s)
IsFresh_DroppedZero(n, cacheTime) ==
    /\ cacheTime # NaN
    /\ n - cacheTime < 3000
IsFresh_NaNPasses(n, cacheTime) ==
    \/ cacheTime = NaN
    \/ n - cacheTime < FRESH_MS
IsFresh_Inclusive(n, cacheTime) ==
    /\ cacheTime # NaN
    /\ n - cacheTime <= FRESH_MS
IsFresh(n, cacheTime) ==
    /\ cacheTime # NaN
    /\ n - cacheTime < FRESH_MS

\* (variant: the snapshot's session is not looked at)
CacheHit_AnySession(item, n) ==
    /\ item.kind \notin {"absent", "empty"}
    /\ ~JSONparse(item).threw
    /\ ~Member(JSONparse(item).value, "timestamp").threw
    /\ IsFresh(n, Member(JSONparse(item).value, "timestamp").value)

\* Lines 18-38: does checkSession take the fast path for this stored item?
CacheHit(item, n) ==
    /\ item.kind \notin {"absent", "empty"}
    /\ ~JSONparse(item).threw
    /\ ~Member(JSONparse(item).value, "timestamp").threw
    /\ IsFresh(n, Member(JSONparse(item).value, "timestamp").value)
    /\ Truthy(Member(JSONparse(item).value, "session").value)

\* sessionStorage.setItem: stores the value, or throws (quota) and stores
\* nothing.
SetItem(old, value, throws) == IF throws THEN old ELSE value

\* ------------------------------------------------------ service replies
Resolved(s, e) == [kind |-> "resolved", session |-> s, error |-> e]
Rejected(e) == [kind |-> "rejected", session |-> Null, error |-> e]
NoReply == [kind |-> "none", session |-> Null, error |-> Null]

GetSessionReplies ==
    {Resolved(s, Null) : s \in Sessions \cup {Null}}
      \cup {Resolved(Null, e) : e \in RawErrors}
      \cup {Rejected(e) : e \in RawErrors}

SignOutReplies ==
    {Resolved(Null, Null)}
      \cup {Resolved(Null, e) : e \in RawErrors}
      \cup {Rejected(e) : e \in RawErrors}

\* ------------------------------------------------------- AuthForm.tsx
MsgSignIn == "We could not sign you in with those details. Please check your email and password or try resetting your password."
MsgSignUp == "We could not create your account right now. Please check your details or try again in a moment."
\* (variant: the thrown error's own text is shown)
MsgGoogle_Raw == "raw: invalid JWT"
MsgGoogle == "We could not reach Google sign-in right now. Please try again or use email and password."
MsgBothFields == "Please enter both email and password."
MsgContact == "Something went wrong while contacting the authentication service. Please try again."
MsgCreated == "Account created. Please check your inbox to confirm your email address."

\* params.get('redirect'): null when the parameter is absent, else its
\* decoded value.
RedirectChars == {"/", "\\", "a"}
SeqsUpTo(chars, n) == UNION {[1..k -> chars] : k \in 0..n}
Param(v) == [present |-> TRUE, value |-> v]
NoParam == [present |-> FALSE, value |-> <<>>]
RedirectParams == {NoParam} \cup {Param(v) : v \in SeqsUpTo(RedirectChars, MaxLen)}

Dashboard == <<"/", "d", "a", "s", "h", "b", "o", "a", "r", "d">>

startsWith(str, prefix) ==
    /\ Len(str) >= Len(prefix)
    /\ SubSeq(str, 1, Len(prefix)) = prefix

\* Lines 15-23.  The empty string is falsy.
\* (variant: any non-empty value is taken)
getRedirectTarget_NoCheck(param) ==
    IF param.present /\ param.value # <<>> THEN param.value ELSE Dashboard
getRedirectTarget(param) ==
    IF param.present /\ param.value # <<>> /\ startsWith(param.value, <<"/">>)
    THEN param.value
    ELSE Dashboard

\* window.location.origin, one token, and `${origin}${target}` (line 50).
Origin == <<"https://portal.example">>

\* What assigning a string to window.location.href (line 95) does with a
\* reference that starts with '/', resolved against the page's http(s) URL:
\* a second leading '/' or '\' makes the reference scheme-relative, every
\* further one is skipped and the host follows (no host: the assignment
\* throws); otherwise the reference is a path on the page's own origin.
RECURSIVE SkipSlashes(_)
SkipSlashes(str) ==
    IF str # <<>> /\ Head(str) \in {"/", "\\"}
    THEN SkipSlashes(Tail(str))
    ELSE str

ResolveHref(url) ==
    IF Len(url) >= 2 /\ url[1] \in {"/", "\\"} /\ url[2] \in {"/", "\\"}
    THEN IF SkipSlashes(url) = <<>> THEN "invalid" ELSE "cross-origin"
    ELSE "same-origin"

Href(url) == [assigned |-> TRUE, url |-> url]
NoHref == [assigned |-> FALSE, url |-> <<>>]

\* String.prototype.trim over the typed fields (line 79).
FieldChars == {" ", "x"}
FieldValues == SeqsUpTo(FieldChars, MaxFieldLen)

RECURSIVE trimStart(_)
trimStart(str) ==
    IF str # <<>> /\ Head(str) = " " THEN trimStart(Tail(str)) ELSE str

RECURSIVE trimEnd(_)
trimEnd(str) ==
    IF str # <<>> /\ str[Len(str)] = " "
    THEN trimEnd(SubSeq(str, 1, Len(str) - 1))
    ELSE str

\* (variant: the field is taken as typed)
trim_AsTyped(str) == str
trim(str) == trimEnd(trimStart(str))

\* Lines 25-40.
\* (variant: the two messages are the wrong way round)
setFriendlyError_Swapped(context) == IF context = "sign-in" THEN MsgSignUp ELSE MsgSignIn
setFriendlyError(context) == IF context = "sign-in" THEN MsgSignIn ELSE MsgSignUp

\* Line 119, and the disabled attribute of the Google button (line 158) and
\* of the submit button (line 211).
isBusy == loading \/ oauthLoading
googleDisabled == isBusy
\* (variant: the submit button looks at its own flag only)
submitDisabled_OwnFlag == loading
submitDisabled == isBusy

AuthReplies ==
    {Resolved(Null, Null)}
      \cup {Resolved(Null, e) : e \in RawErrors}
      \cup {Rejected(e) : e \in RawErrors}

\* How a settled service call presents itself to its caller.
SettledAs(r) ==
    IF r.kind = "rejected" THEN "rejected"
    ELSE IF Truthy(r.error) THEN "error" ELSE "ok"

\* The useState initial values (lines 7-13).
InitForm ==
    /\ form = "unrendered"
    /\ mode = "sign-in"
    /\ email = <<>>
    /\ password = <<>>
    /\ loading = FALSE
    /\ oauthLoading = FALSE
    /\ message = Null
    /\ formError = Null
    /\ href = NoHref
    /\ redirectTo = <<>>
    /\ submitCall = "idle"
    /\ submitResult = "none"
    /\ oauthCall = "idle"

\* ------------------------------------------------------------------ Init
InitTimestamps == {0} \cup {T0 - k * TickMs : k \in 0..MaxAgeTicks}

InitItems ==
    {NoItem, Item("empty", Undefined, NaN),
     Item("garbage", Undefined, NaN),
     Item("null", Undefined, NaN),
     Item("number", Undefined, NaN)}
      \cup {Item("object", s, t) : s \in Sessions \cup {Undefined},
                                   t \in InitTimestamps \cup {NaN}}

InitClient ==
    /\ supabaseUrl \in EnvValues
    /\ supabaseAnonKey \in EnvValues
    /\ client = "unloaded"
    /\ turn = "load"
    /\ issued = 0

InitGate ==
    /\ lifecycle = "unrendered"
    /\ isActive = FALSE
    /\ status = "checking"
    /\ session = Null
    /\ error = Null
    /\ now = T0
    /\ getSessionCall = "idle"
    /\ lastReply = NoReply
    /\ setItemThrew = FALSE
    /\ signOutCall = "idle"
    /\ location = NoNavigation
    /\ getSessionCalls = 0

\* The login page: the gate is not on it; the URL carries any 'redirect'.
InitAuth ==
    /\ page = LoginPath
    /\ InitClient
    /\ InitGate
    /\ storage = NoItem
    /\ InitForm
    /\ redirectParam \in RedirectParams

\* The dashboard page: the form is not on it.
Init ==
    /\ page = DashboardPage
    /\ InitClient
    /\ InitGate
    /\ storage \in InitItems
    /\ InitForm
    /\ redirectParam = NoParam

\* ------------------------------------------------ supabaseClient.ts
\* Module evaluation: throws when either value is falsy, else creates the
\* handle.
\* (variant: only the absence of both values is noticed)
ConfigMissing_Both(url, key) == ~Truthy(url) /\ ~Truthy(key)
ConfigMissing(url, key) == ~Truthy(url) \/ ~Truthy(key)

createClient ==
    /\ turn' = "createClient"
    /\ issued' = 0
    /\ client = "unloaded"
    /\ client' = IF ConfigMissing(supabaseUrl, supabaseAnonKey)
                 THEN "threw" ELSE "created"
    /\ UNCHANGED <<supabaseUrl, supabaseAnonKey, page, gateVars, authVars>>

\* ------------------------------------------------ DashboardShell.tsx
\* First render: the useState initial values (lines 8-10).
DashboardShell ==
    /\ turn' = "DashboardShell"
    /\ issued' = 0
    /\ client = "created"
    /\ page = DashboardPage
    /\ lifecycle = "unrendered"
    /\ lifecycle' = "mounted"
    /\ status' = "checking"
    /\ session' = Null
    /\ error' = Null
    /\ UNCHANGED <<clientVars, authVars, getSessionCalls, setItemThrew, isActive, storage, now, getSessionCall,
                   lastReply, signOutCall, location>>

\* Date.now() advances; only the gate reads the clock.
Tick ==
    /\ turn' = "Tick"
    /\ issued' = 0
    /\ page = DashboardPage
    /\ now < T0 + MaxTicks * TickMs
    /\ now' = now + TickMs
    /\ UNCHANGED <<clientVars, authVars, getSessionCalls, setItemThrew, lifecycle, isActive, status, session, error,
                   storage, getSessionCall, lastReply, signOutCall, location>>

\* The effect (lines 12-87) up to the first await of checkSession.
checkSession ==
    /\ turn' = "checkSession"
    /\ issued' = 1
    /\ lifecycle = "mounted"
    /\ getSessionCall = "idle"
    /\ isActive' = TRUE
    /\ getSessionCalls' = getSessionCalls + 1
    /\ IF CacheHit(storage, now)
       THEN /\ session' = Member(JSONparse(storage).value, "session").value
            /\ status' = "ready"
            /\ getSessionCall' = "background"
       ELSE /\ getSessionCall' = "awaited"
            /\ UNCHANGED <<session, status>>
    /\ UNCHANGED <<clientVars, authVars, setItemThrew, lifecycle, error,
                   storage, now, lastReply, signOutCall, location>>

\* The effect's cleanup (lines 84-86) when the component unmounts.
Unmount ==
    /\ turn' = "Unmount"
    /\ issued' = 0
    /\ lifecycle = "mounted"
    /\ lifecycle' = "unmounted"
    /\ isActive' = FALSE
    /\ UNCHANGED <<clientVars, authVars, getSessionCalls, setItemThrew, status, session, error, storage, now,
                   getSessionCall, lastReply, signOutCall, location>>

\* Line 46 and line 74: the continuation gives up when the flag is down.
\* (variant: the flag is not consulted)
Suppressed_Never(active) == FALSE
Suppressed(active) == ~active

\* (variant: the callback also shows the revalidated session)
BackgroundReply_UpdatesView(r, quota) ==
    /\ turn' = "BackgroundReply"
    /\ issued' = 0
    /\ getSessionCall = "background"
    /\ getSessionCall' = "settled"
    /\ lastReply' = r
    /\ IF r.kind = "resolved" /\ Truthy(r.session) /\ isActive
       THEN /\ storage' = SetItem(storage, JSONstringify(r.session, now), quota)
            /\ setItemThrew' = quota
            /\ session' = r.session
       ELSE UNCHANGED <<storage, setItemThrew, session>>
    /\ UNCHANGED <<clientVars, authVars, getSessionCalls, lifecycle, isActive, status, error,
                   now, signOutCall, location>>

\* (variant: the background callback writes whether or not the component
\* is still mounted)
BackgroundReply_NoLivenessTest(r, quota) ==
    /\ turn' = "BackgroundReply"
    /\ issued' = 0
    /\ getSessionCall = "background"
    /\ getSessionCall' = "settled"
    /\ lastReply' = r
    /\ IF r.kind = "resolved" /\ Truthy(r.session)
       THEN /\ storage' = SetItem(storage, JSONstringify(r.session, now), quota)
            /\ setItemThrew' = quota
       ELSE UNCHANGED <<storage, setItemThrew>>
    /\ UNCHANGED <<clientVars, authVars, getSessionCalls, lifecycle, isActive,
                   status, session, error, now, signOutCall, location>>

\* The .then callback of the background revalidation (lines 29-36).
BackgroundReply(r, quota) ==
    /\ turn' = "BackgroundReply"
    /\ issued' = 0
    /\ getSessionCall = "background"
    /\ getSessionCall' = "settled"
    /\ lastReply' = r
    /\ IF r.kind = "resolved" /\ Truthy(r.session) /\ isActive
       THEN /\ storage' = SetItem(storage, JSONstringify(r.session, now), quota)
            /\ setItemThrew' = quota
       ELSE UNCHANGED <<storage, setItemThrew>>
    /\ UNCHANGED <<clientVars, authVars, getSessionCalls, lifecycle, isActive, status, session, error,
                   now, signOutCall, location>>

\* (variant: a rejected call is issued again)
AwaitedReply_Retries(r, quota) ==
    /\ turn' = "AwaitedReply"
    /\ getSessionCall = "awaited"
    /\ lastReply' = r
    /\ IF ~Suppressed(isActive) /\ r.kind = "rejected"
       THEN /\ issued' = 1
            /\ getSessionCalls' = getSessionCalls + 1
            /\ getSessionCall' = "awaited"
       ELSE /\ issued' = 0
            /\ getSessionCall' = "settled"
            /\ UNCHANGED getSessionCalls
    /\ IF Suppressed(isActive) \/ r.kind = "rejected"
       THEN UNCHANGED <<status, session, error, storage, setItemThrew, location>>
       ELSE IF Truthy(r.error)
       THEN /\ error' = MsgVerify
            /\ status' = "error"
            /\ UNCHANGED <<session, storage, setItemThrew, location>>
       ELSE IF ~Truthy(r.session)
       THEN /\ status' = "redirecting"
            /\ location' = redirectTarget
            /\ UNCHANGED <<session, error, storage, setItemThrew>>
       ELSE /\ session' = r.session
            /\ storage' = SetItem(storage, JSONstringify(r.session, now), quota)
            /\ setItemThrew' = quota
            /\ IF quota
               THEN /\ error' = MsgUnexpected
                    /\ status' = "error"
               ELSE /\ status' = "ready"
                    /\ UNCHANGED error
            /\ UNCHANGED location
    /\ UNCHANGED <<clientVars, authVars, lifecycle, isActive, now, signOutCall>>

\* The continuation of the awaited call (lines 44-79).
AwaitedReply(r, quota) ==
    /\ turn' = "AwaitedReply"
    /\ issued' = 0
    /\ getSessionCall = "awaited"
    /\ getSessionCall' = "settled"
    /\ lastReply' = r
    /\ IF Suppressed(isActive)
       THEN UNCHANGED <<status, session, error, storage, setItemThrew, location>>
       ELSE IF r.kind = "rejected"
       THEN /\ error' = MsgUnexpected
            /\ status' = "error"
            /\ UNCHANGED <<session, storage, setItemThrew, location>>
       ELSE IF Truthy(r.error)
       THEN /\ error' = MsgVerify
            /\ status' = "error"
            /\ UNCHANGED <<session, storage, setItemThrew, location>>
       ELSE IF ~Truthy(r.session)
       THEN /\ status' = "redirecting"
            /\ location' = redirectTarget
            /\ UNCHANGED <<session, error, storage, setItemThrew>>
       ELSE /\ session' = r.session
            /\ storage' = SetItem(storage, JSONstringify(r.session, now), quota)
            /\ setItemThrew' = quota
            /\ IF quota
               THEN /\ error' = MsgUnexpected
                    /\ status' = "error"
               ELSE /\ status' = "ready"
                    /\ UNCHANGED error
            /\ UNCHANGED location
    /\ UNCHANGED <<clientVars, authVars, getSessionCalls, lifecycle, isActive, now, signOutCall>>

getSessionSettles ==
    \E r \in GetSessionReplies, quota \in BOOLEAN :
        BackgroundReply(r, quota) \/ AwaitedReply(r, quota)

\* The render function returns the dashboard view, the only one that can
\* carry the sign-out control, when the status is neither checking,
\* redirecting nor error (lines 110-153).
\* (variant: the error view carries the control too)
SignOutOffered_ErrorView(st) == st \in {"ready", "error"}
SignOutOffered(st) == st = "ready"

\* handleSignOut up to its await (lines 89-93).
handleSignOut ==
    /\ turn' = "handleSignOut"
    /\ issued' = 1
    /\ lifecycle = "mounted"
    /\ SignOutOffered(status)
    /\ status' = "checking"
    /\ error' = Null
    /\ signOutCall' = "pending"
    /\ UNCHANGED <<clientVars, authVars, getSessionCalls, setItemThrew, lifecycle, isActive, session, storage, now,
                   getSessionCall, lastReply, location>>

\* sessionStorage.removeItem (line 101).
\* (variant: the key is left in place)
RemoveItem_Kept(old) == old
RemoveItem(old) == NoItem

\* The status both failure branches of handleSignOut set (lines 97, 106).
\* (variant: a failed sign-out ends in the error view)
SignOutFailureStatus_Error == "error"
SignOutFailureStatus == "ready"

\* The continuation of handleSignOut (lines 93-107).
signOutSettles ==
    \E r \in SignOutReplies :
        /\ turn' = "signOutSettles"
        /\ issued' = 0
        /\ signOutCall = "pending"
        /\ signOutCall' = SettledAs(r)
        /\ IF r.kind = "rejected"
           THEN /\ error' = MsgSignOutUnexpected
                /\ status' = SignOutFailureStatus
                /\ UNCHANGED <<storage, location>>
           ELSE IF Truthy(r.error)
           THEN /\ error' = MsgSignOut
                /\ status' = SignOutFailureStatus
                /\ UNCHANGED <<storage, location>>
           ELSE /\ storage' = RemoveItem(storage)
                /\ location' = LoginPath
                /\ UNCHANGED <<status, error>>
        /\ UNCHANGED <<clientVars, authVars, getSessionCalls, setItemThrew, lifecycle, isActive, session, now,
                       getSessionCall, lastReply>>

\* The two buttons of the error view (lines 134-147).
RefreshPage ==
    /\ turn' = "RefreshPage"
    /\ issued' = 0
    /\ lifecycle = "mounted"
    /\ status = "error"
    /\ location' = Reload
    /\ UNCHANGED <<clientVars, authVars, getSessionCalls, setItemThrew, lifecycle, isActive, status, session, error,
                   storage, now, getSessionCall, lastReply, signOutCall>>

GoToLogin ==
    /\ turn' = "GoToLogin"
    /\ issued' = 0
    /\ lifecycle = "mounted"
    /\ status = "error"
    /\ location' = LoginPath
    /\ UNCHANGED <<clientVars, authVars, getSessionCalls, setItemThrew, lifecycle, isActive, status, session, error,
                   storage, now, getSessionCall, lastReply, signOutCall>>

\* ------------------------------------------------ AuthForm.tsx actions
\* First render of the form.
AuthForm ==
    /\ turn' = "AuthForm"
    /\ issued' = 0
    /\ client = "created"
    /\ page = LoginPath
    /\ form = "unrendered"
    /\ form' = "mounted"
    /\ UNCHANGED <<clientVars, gateVars, mode, email, password, loading,
                   oauthLoading, message, formError, redirectParam, href,
                   redirectTo, submitCall, submitResult, oauthCall>>

\* The mode toggle (line 129) and the two inputs (lines 184, 203).
setMode ==
    /\ turn' = "setMode"
    /\ issued' = 0
    /\ form = "mounted"
    /\ mode' = IF mode = "sign-in" THEN "sign-up" ELSE "sign-in"
    /\ UNCHANGED <<clientVars, gateVars, form, email, password, loading,
                   oauthLoading, message, formError, redirectParam, href,
                   redirectTo, submitCall, submitResult, oauthCall>>

setEmail ==
    \E v \in FieldValues :
        /\ turn' = "setEmail"
        /\ issued' = 0
        /\ form = "mounted"
        /\ email' = v
        /\ UNCHANGED <<clientVars, gateVars, form, mode, password, loading,
                       oauthLoading, message, formError, redirectParam, href,
                       redirectTo, submitCall, submitResult, oauthCall>>

setPassword ==
    \E v \in FieldValues :
        /\ turn' = "setPassword"
        /\ issued' = 0
        /\ form = "mounted"
        /\ password' = v
        /\ UNCHANGED <<clientVars, gateVars, form, mode, email, loading,
                       oauthLoading, message, formError, redirectParam, href,
                       redirectTo, submitCall, submitResult, oauthCall>>

\* handleGoogleSignIn up to its await (lines 42-57); the button is disabled
\* while isBusy (line 158).
handleGoogleSignIn ==
    /\ turn' = "handleGoogleSignIn"
    /\ issued' = 1
    /\ form = "mounted"
    /\ ~googleDisabled
    /\ loading' = FALSE
    /\ oauthLoading' = TRUE
    /\ message' = Null
    /\ formError' = Null
    /\ redirectTo' = Origin \o getRedirectTarget(redirectParam)
    /\ oauthCall' = "pending"
    /\ UNCHANGED <<clientVars, gateVars, form, mode, email, password,
                   redirectParam, href, submitCall, submitResult>>

\* The continuation of handleGoogleSignIn (lines 59-70).  On success the
\* service takes the browser away; the handler does nothing more.
oauthSettles ==
    \E r \in AuthReplies :
        /\ turn' = "oauthSettles"
        /\ issued' = 0
        /\ oauthCall = "pending"
        /\ oauthCall' = SettledAs(r)
        /\ IF r.kind = "rejected"
           THEN /\ formError' = MsgGoogle
                /\ oauthLoading' = FALSE
           ELSE IF Truthy(r.error)
           THEN /\ formError' = setFriendlyError("sign-in")
                /\ oauthLoading' = FALSE
           ELSE UNCHANGED <<formError, oauthLoading>>
        /\ UNCHANGED <<clientVars, gateVars, form, mode, email, password,
                       loading, message, redirectParam, href, redirectTo,
                       submitCall, submitResult>>

\* handleSubmit up to its await (lines 73-100); the submit button is
\* disabled while isBusy (line 211).
handleSubmit ==
    /\ turn' = "handleSubmit"
    /\ form = "mounted"
    /\ ~submitDisabled
    /\ message' = Null
    /\ IF trim(email) = <<>> \/ trim(password) = <<>>
       THEN /\ formError' = MsgBothFields
            /\ loading' = FALSE
            /\ issued' = 0
            /\ UNCHANGED <<submitCall, submitResult>>
       ELSE /\ formError' = Null
            /\ loading' = TRUE
            /\ submitCall' = mode
            /\ submitResult' = "none"
            /\ issued' = 1
    /\ UNCHANGED <<clientVars, gateVars, form, mode, email, password,
                   oauthLoading, redirectParam, href, redirectTo, oauthCall>>

\* The continuation of handleSubmit (lines 87-116).
submitSettles ==
    \E r \in AuthReplies :
        /\ turn' = "submitSettles"
        /\ issued' = 0
        /\ submitCall # "idle"
        /\ submitCall' = "idle"
        /\ submitResult' = SettledAs(r)
        /\ loading' = FALSE
        /\ IF r.kind = "rejected"
           THEN /\ formError' = MsgContact
                /\ UNCHANGED <<message, href>>
           ELSE IF Truthy(r.error)
           THEN /\ formError' = setFriendlyError(submitCall)
                /\ UNCHANGED <<message, href>>
           ELSE IF submitCall = "sign-in"
           THEN IF ResolveHref(getRedirectTarget(redirectParam)) = "invalid"
                THEN /\ formError' = MsgContact
                     /\ UNCHANGED <<message, href>>
                ELSE /\ href' = Href(getRedirectTarget(redirectParam))
                     /\ UNCHANGED <<message, formError>>
           ELSE /\ message' = MsgCreated
                /\ UNCHANGED <<formError, href>>
        /\ UNCHANGED <<clientVars, gateVars, form, mode, email, password,
                       oauthLoading, redirectParam, redirectTo, oauthCall>>

Next ==
    \/ createClient
    \/ DashboardShell
    \/ Tick
    \/ checkSession
    \/ Unmount
    \/ getSessionSettles
    \/ handleSignOut
    \/ signOutSettles
    \/ RefreshPage
    \/ GoToLogin

Spec == Init /\ [][Next]_vars

NextAuth ==
    \/ createClient
    \/ AuthForm
    \/ setMode
    \/ setEmail
    \/ setPassword
    \/ handleGoogleSignIn
    \/ oauthSettles
    \/ handleSubmit
    \/ submitSettles

SpecAuth == InitAuth /\ [][NextAuth]_vars

\* Either page of the portal is loaded.
InitPortal == Init \/ InitAuth

NextPortal ==
    \/ createClient
    \/ DashboardShell
    \/ Tick
    \/ checkSession
    \/ Unmount
    \/ getSessionSettles
    \/ handleSignOut
    \/ signOutSettles
    \/ RefreshPage
    \/ GoToLogin
    \/ AuthForm
    \/ setMode
    \/ setEmail
    \/ setPassword
    \/ handleGoogleSignIn
    \/ oauthSettles
    \/ handleSubmit
    \/ submitSettles

SpecPortal == InitPortal /\ [][NextPortal]_vars

\* ======================================================= Session Gate claims
\* The effect's synchronous start, and the settling of each call.
CheckStarts == getSessionCall = "idle" /\ getSessionCall' # "idle"
GetSessionReplyArrives ==
    getSessionCall \in {"awaited", "background"} /\ getSessionCall' = "settled"
SignOutReplyArrives == signOutCall = "pending" /\ signOutCall' # "pending"

\* The snapshot is an object with a session, captured less than 30 s ago.
SnapshotFresh ==
    /\ storage.kind = "object"
    /\ storage.session \in Sessions
    /\ storage.timestamp # NaN
    /\ now - storage.timestamp < 30000

\* The snapshot is absent, 30 s old or older, or holds no session.
SnapshotUnusable ==
    \/ storage.kind = "absent"
    \/ storage.kind = "object" /\ storage.timestamp # NaN
         /\ now - storage.timestamp >= 30000
    \/ storage.kind = "object" /\ storage.session \notin Sessions

\* C1: on mount with a snapshot younger than 30 s that holds a session, the
\* gate takes the session from the snapshot and is 'ready' in the same turn
\* in which it issues get-current-session; the call is then pending in the
\* background and no reply has been received.
C1_FastPath ==
    [][ (CheckStarts /\ SnapshotFresh) =>
          /\ status' = "ready"
          /\ session' = storage.session
          /\ getSessionCall' = "background"
          /\ lastReply' = NoReply ]_vars

C1_Witness ==
    /\ getSessionCall = "background"
    /\ status = "ready"
    /\ session \in Sessions
    /\ lastReply = NoReply
    /\ storage.kind = "object" /\ now - storage.timestamp = 2 * TickMs

\* C2: on mount with an absent, stale (30 s or older) or session-less
\* snapshot the gate awaits get-current-session, and as long as that awaited
\* call has not replied the status is 'checking' with no session, no error
\* and no navigation.
C2_MissAwaits ==
    [][ /\ (CheckStarts /\ SnapshotUnusable) => getSessionCall' = "awaited"
        /\ getSessionCall' = "awaited" =>
             /\ status' = "checking"
             /\ session' = Null
             /\ error' = Null
             /\ location' = NoNavigation ]_vars

C2_Witness ==
    /\ getSessionCall = "awaited"
    /\ status = "checking"
    /\ storage.kind = "object"
    /\ storage.session \in Sessions
    /\ storage.timestamp # NaN
    /\ now - storage.timestamp >= 30000

\* C5: when sign-out replies without error the cache key is removed, the
\* browser is sent to '/auth', and the status, 'checking' since the start
\* of the sign-out, is 'checking' from then on.
C5_SignOutSuccess ==
    [][ /\ (SignOutReplyArrives /\ signOutCall' = "ok") =>
             /\ storage' = NoItem
             /\ location' = "/auth"
             /\ status = "checking"
        /\ signOutCall' = "ok" => status' = "checking" ]_vars

C5_Witness ==
    /\ signOutCall = "ok"
    /\ storage = NoItem
    /\ location = "/auth"
    /\ status = "checking"
    /\ session \in Sessions

\* C6: when sign-out replies with an error or rejects, the cache key, the
\* current session and the location are unchanged, an error message is
\* stored, and the status goes from 'checking' back to 'ready'.
C6_SignOutFailure ==
    [][ (SignOutReplyArrives /\ signOutCall' \in {"error", "rejected"}) =>
          /\ UNCHANGED <<storage, session, location>>
          /\ error' \in {MsgSignOut, MsgSignOutUnexpected}
          /\ status = "checking"
          /\ status' = "ready" ]_vars

C6_Witness ==
    /\ signOutCall \in {"error", "rejected"}
    /\ status = "ready"
    /\ error \in {MsgSignOut, MsgSignOutUnexpected}
    /\ storage.kind = "object"
    /\ session \in Sessions
    /\ location = NoNavigation

\* C7: a get-current-session reply that arrives after the unmount changes
\* none of status, session and error, whatever the reply is.
C7_NoUpdateAfterUnmount ==
    [][ (lifecycle = "unmounted" /\ GetSessionReplyArrives) =>
          UNCHANGED <<status, session, error>> ]_vars

C7_Witness ==
    /\ lifecycle = "unmounted"
    /\ getSessionCall = "settled"
    /\ lastReply \in {Resolved(s, Null) : s \in Sessions}
                       \cup {Rejected(e) : e \in RawErrors}
    /\ status = "checking"
    /\ signOutCall = "idle"

\* C8: after the unmount no step at all changes status, session or error,
\* including the settling of a sign-out that was pending at the unmount.
C8_NoUpdateAfterUnmountAtAll ==
    [][ lifecycle = "unmounted" => UNCHANGED <<status, session, error>> ]_vars

\* C9 as stated: the status starts at 'checking'; 'ready', 'error' and
\* 'redirecting' are never left; and the status changes only in a turn of
\* the session check (its start on a cache hit, or the reply of its call).
C9_TerminalStates ==
    /\ status = "checking"
    /\ [][ /\ status \in {"ready", "error", "redirecting"} => status' = status
           /\ status' # status => (CheckStarts \/ GetSessionReplyArrives) ]_vars

\* C9 amended: the status starts at 'checking'; 'error' and 'redirecting'
\* are never left; 'ready' is left only by the start of a sign-out, for
\* 'checking'; and 'checking' is left only by the session check (the cache
\* hit at mount or the reply of the awaited call) or, for 'ready', by a
\* sign-out that fails.
C9_Amended ==
    /\ status = "checking"
    /\ [][ /\ status \in {"error", "redirecting"} => status' = status
           /\ (status = "ready" /\ status' # status) =>
                /\ status' = "checking"
                /\ signOutCall # "pending" /\ signOutCall' = "pending"
           /\ (status = "checking" /\ status' # status) =>
                \/ CheckStarts /\ status' = "ready"
                \/ getSessionCall = "awaited" /\ GetSessionReplyArrives
                \/ /\ SignOutReplyArrives
                   /\ signOutCall' \in {"error", "rejected"}
                   /\ status' = "ready" ]_vars

C9_Witness ==
    /\ status = "checking"
    /\ signOutCall = "pending"
    /\ getSessionCall = "settled"
    /\ lifecycle = "mounted"

\* C10: when the awaited get-current-session call replies, while mounted,
\* without error and without a session, the status becomes 'redirecting',
\* the browser is sent to '/auth?redirect=/dashboard', and neither the
\* stored session nor the cache key is written.
C10_NoSessionRedirects ==
    [][ ( /\ getSessionCall = "awaited" /\ GetSessionReplyArrives
          /\ lifecycle = "mounted"
          /\ lastReply' = Resolved(Null, Null) ) =>
          /\ status' = "redirecting"
          /\ location' = "/auth?redirect=/dashboard"
          /\ UNCHANGED <<session, storage>> ]_vars

C10_Witness ==
    /\ status = "redirecting"
    /\ location = "/auth?redirect=/dashboard"
    /\ lastReply = Resolved(Null, Null)
    /\ session = Null

\* ========================================================= Auth Form claims
\* The target the sanitization is to produce for the page's 'redirect' value.
SanitizedTarget ==
    IF redirectParam.present /\ Len(redirectParam.value) > 0
         /\ redirectParam.value[1] = "/"
    THEN redirectParam.value
    ELSE Dashboard

\* C3: the target computed from the 'redirect' value is '/dashboard' when
\* the value is absent, empty or does not start with '/', and the value
\* itself when it starts with '/'; the target is what a successful sign-in
\* assigns to the location and what an OAuth initiation appends to the
\* origin.
C3_RedirectSanitized ==
    /\ href.assigned => href.url = SanitizedTarget
    /\ oauthCall # "idle" => redirectTo = Origin \o SanitizedTarget

C3_Witness ==
    /\ href.assigned
    /\ href.url = Dashboard
    /\ redirectParam.present
    /\ Len(redirectParam.value) = MaxLen
    /\ redirectParam.value[1] = "a"
    /\ redirectParam.value[2] = "/"

\* C4: whatever the 'redirect' value, the location assigned after a
\* successful password sign-in resolves to the portal's own origin.
C4_NoOpenRedirect ==
    href.assigned => ResolveHref(href.url) = "same-origin"


\* C11: when the awaited get-current-session call replies with a session
\* while the gate is mounted, the gate stores that session, the status
\* becomes 'ready', and the cache key holds that session with the current
\* time.
C11_SessionStoredAndCached ==
    [][ ( /\ getSessionCall = "awaited" /\ GetSessionReplyArrives
          /\ lifecycle = "mounted"
          /\ lastReply'.kind = "resolved"
          /\ lastReply'.session \in Sessions ) =>
          /\ session' = lastReply'.session
          /\ status' = "ready"
          /\ storage' = Item("object", lastReply'.session, now) ]_vars

\* C12: when the awaited get-current-session call replies with a service
\* error or rejects while the gate is mounted, the status becomes 'error',
\* the stored message is one of the two fixed strings and not the raw error
\* text, and neither the location nor the cache key is written.
C12_ResolutionError ==
    [][ ( /\ getSessionCall = "awaited" /\ GetSessionReplyArrives
          /\ lifecycle = "mounted"
          /\ \/ lastReply'.kind = "rejected"
             \/ lastReply'.kind = "resolved" /\ lastReply'.error \in RawErrors ) =>
          /\ status' = "error"
          /\ error' \in
               {"We could not verify your session. Please refresh the page or sign in again.",
                "Something went wrong while checking your session. Please try again."}
          /\ error' \notin RawErrors
          /\ UNCHANGED <<location, storage, session>> ]_vars

C12_Witness ==
    /\ turn = "AwaitedReply"
    /\ lastReply \in {Resolved(Null, e) : e \in RawErrors}
    /\ status = "error"
    /\ error = "We could not verify your session. Please refresh the page or sign in again."
    /\ location = NoNavigation
    /\ storage.kind = "object"


\* C17: the client handle is created exactly when both configuration
\* values are present and non-empty; otherwise module evaluation throws and
\* no handle exists, so that the gate renders and calls the service only
\* with a handle built from both values.
C17_FailFast ==
    /\ client = "created" =>
         /\ supabaseUrl \notin {Undefined, ""}
         /\ supabaseAnonKey \notin {Undefined, ""}
    /\ client = "threw" =>
         \/ supabaseUrl \in {Undefined, ""}
         \/ supabaseAnonKey \in {Undefined, ""}
    /\ (lifecycle # "unrendered" \/ getSessionCall # "idle"
          \/ signOutCall # "idle") => client = "created"

C17_Witness ==
    /\ client = "threw"
    /\ supabaseUrl = "configured"
    /\ supabaseAnonKey = ""
    /\ lifecycle = "unrendered"

\* C18 as stated: when the background revalidation issued on the fast path
\* replies, the cache entry is replaced by the outcome, mounted or not: a
\* reply with a session leaves that session with the current time under the
\* key, any other reply leaves no session under the key.
C18_AlwaysSuperseded ==
    [][ (getSessionCall = "background" /\ GetSessionReplyArrives) =>
          IF lastReply'.kind = "resolved" /\ lastReply'.session \in Sessions
          THEN storage' = Item("object", lastReply'.session, now)
          ELSE ~(storage'.kind = "object" /\ storage'.session \in Sessions) ]_vars

\* C18 amended: the reply of the background revalidation replaces the cache
\* entry only when it carries a session and the gate is still mounted; the
\* entry then holds that session with the current time (or is as it was
\* when the storage write itself throws).  Every other reply, and every
\* reply after the unmount, leaves the cache entry as it was.
C18_Amended ==
    [][ (getSessionCall = "background" /\ GetSessionReplyArrives) =>
          IF /\ lastReply'.kind = "resolved"
             /\ lastReply'.session \in Sessions
             /\ lifecycle = "mounted"
          THEN storage' = IF setItemThrew'
                          THEN storage
                          ELSE Item("object", lastReply'.session, now)
          ELSE UNCHANGED <<storage, setItemThrew>> ]_vars

C18_Witness ==
    /\ turn = "BackgroundReply"
    /\ lastReply.kind = "resolved"
    /\ lastReply.session \in Sessions
    /\ lifecycle = "mounted"
    /\ storage = Item("object", lastReply.session, now)
    /\ session \in Sessions
    /\ session # lastReply.session
    /\ now > T0

\* C19: the reply of the background revalidation, whatever it is, changes
\* none of status, session, error and location; and from the fast path on
\* the displayed session never changes.
C19_BackgroundFrame ==
    [][ /\ (getSessionCall = "background" /\ GetSessionReplyArrives) =>
             UNCHANGED <<status, session, error, location>>
        /\ getSessionCall \in {"background", "settled"} =>
             session' = session ]_vars

C19_Witness ==
    /\ turn = "BackgroundReply"
    /\ lastReply \in {Resolved(Null, Null)} \cup {Rejected(e) : e \in RawErrors}
    /\ status = "ready"
    /\ session \in Sessions
    /\ error = Null
    /\ location = NoNavigation

\* The stored value is not parseable, parses to a non-object, or is an
\* object that lacks a timestamp or a session.
SnapshotMalformed ==
    \/ storage.kind \in {"empty", "garbage", "null", "number"}
    \/ storage.kind = "object" /\ storage.timestamp = NaN
    \/ storage.kind = "object" /\ storage.session \notin Sessions

\* C20: on mount with malformed cache content the gate does what it does
\* with an empty cache: it awaits get-current-session, stays 'checking'
\* without an error message, and leaves the stored value alone.
C20_MalformedIsMiss ==
    [][ (CheckStarts /\ SnapshotMalformed) =>
          /\ getSessionCall' = "awaited"
          /\ status' = "checking"
          /\ error' = Null
          /\ UNCHANGED <<storage, session, location>> ]_vars

C20_Witness ==
    /\ turn = "checkSession"
    /\ getSessionCall = "awaited"
    /\ storage.kind = "null"
    /\ status = "checking"


\* C13: in either mode, a submission whose trimmed email or trimmed
\* password is empty starts no service call, shows 'Please enter both email
\* and password.', assigns no location and leaves the submit busy flag false.
C13_EmptyFieldRejected ==
    [][ ( /\ turn' = "handleSubmit"
          /\ \/ \A i \in 1..Len(email) : email[i] = " "
             \/ \A i \in 1..Len(password) : password[i] = " " ) =>
          /\ submitCall' = "idle"
          /\ oauthCall' = oauthCall
          /\ formError' = "Please enter both email and password."
          /\ href' = href
          /\ loading' = FALSE ]_vars

C13_Witness ==
    /\ turn = "handleSubmit"
    /\ mode = "sign-up"
    /\ email = <<"x">>
    /\ password = <<" ">>
    /\ formError = "Please enter both email and password."
    /\ submitCall = "idle"
    /\ ~loading

\* C14: when the password sign-in call replies with an error, the form
\* shows the fixed sign-in failure message and not the raw text, assigns no
\* location, and both busy flags are false.
C14_SignInError ==
    [][ ( /\ submitCall = "sign-in" /\ submitCall' = "idle"
          /\ submitResult' = "error" ) =>
          /\ formError' = "We could not sign you in with those details. Please check your email and password or try resetting your password."
          /\ formError' \notin RawErrors
          /\ href' = href
          /\ loading' = FALSE
          /\ oauthLoading' = FALSE ]_vars

C14_Witness ==
    /\ turn = "submitSettles"
    /\ submitResult = "error"
    /\ formError = "We could not sign you in with those details. Please check your email and password or try resetting your password."
    /\ mode = "sign-up"
    /\ ~href.assigned
    /\ ~loading


\* The fixed texts of the form's failure messages.
SignInText == "We could not sign you in with those details. Please check your email and password or try resetting your password."
SignUpText == "We could not create your account right now. Please check your details or try again in a moment."
ContactText == "Something went wrong while contacting the authentication service. Please try again."
GoogleText == "We could not reach Google sign-in right now. Please try again or use email and password."

SubmitFails ==
    /\ submitCall # "idle" /\ submitCall' = "idle"
    /\ submitResult' \in {"error", "rejected"}
OAuthFails == oauthCall = "pending" /\ oauthCall' \in {"error", "rejected"}

\* C15 as stated: every failure of a credential sign-in, a sign-up or an
\* OAuth initiation, reported by the service or thrown, ends with one of
\* two messages, the sign-in or the sign-up one, by the mode of the failed
\* operation.
C15_TwoMessages ==
    [][ /\ SubmitFails =>
             formError' = IF submitCall = "sign-in" THEN SignInText ELSE SignUpText
        /\ OAuthFails => formError' = SignInText ]_vars

\* C15 amended: every failure ends with one of four fixed messages, never
\* the raw text: an error reported by the service shows the sign-in or the
\* sign-up message by the operation that failed (OAuth: the sign-in one); an
\* exception thrown in a credential submission shows the 'contacting the
\* authentication service' message; an exception thrown in the OAuth
\* initiation shows the 'reach Google sign-in' message.
C15_Amended ==
    [][ /\ (SubmitFails /\ submitResult' = "error") =>
             formError' = IF submitCall = "sign-in" THEN SignInText ELSE SignUpText
        /\ (SubmitFails /\ submitResult' = "rejected") => formError' = ContactText
        /\ (submitCall # "idle" /\ submitCall' = "idle" /\ submitResult' = "ok") =>
             formError' \in {Null, ContactText}
        /\ (OAuthFails /\ oauthCall' = "error") => formError' = SignInText
        /\ (OAuthFails /\ oauthCall' = "rejected") => formError' = GoogleText
        /\ formError' \notin RawErrors ]_vars

C15_Witness ==
    /\ turn = "oauthSettles"
    /\ oauthCall = "rejected"
    /\ formError = GoogleText
    /\ ~oauthLoading

\* C16 as stated: while an OAuth initiation is in flight the submit button
\* is enabled, and while a credential submission is in flight the Google
\* button is enabled.
C16_EntryPointsIndependent ==
    /\ oauthCall = "pending" => ~submitDisabled
    /\ submitCall # "idle" => ~googleDisabled

\* C16 amended: the two busy flags are separate state, each raised only by
\* its own entry point, but either one disables both buttons: while an OAuth
\* initiation is in flight only the OAuth flag is up, no credential call is
\* pending and both buttons are disabled; while a credential submission is
\* in flight only the submit flag is up, no OAuth call is pending and both
\* buttons are disabled.
C16_Amended ==
    /\ oauthCall = "pending" =>
         /\ oauthLoading /\ ~loading
         /\ submitDisabled /\ googleDisabled
         /\ submitCall = "idle"
    /\ submitCall # "idle" =>
         /\ loading /\ ~oauthLoading
         /\ submitDisabled /\ googleDisabled
         /\ oauthCall # "pending"

C16_Witness ==
    /\ oauthCall = "pending"
    /\ submitDisabled
    /\ email = <<"x">>
    /\ password = <<"x">>
    /\ mode = "sign-in"

\* ============================================================ Portal claims
\* The turns in which the reply to a call is handled.
ReplyTurns ==
    {"BackgroundReply", "AwaitedReply", "signOutSettles", "submitSettles",
     "oauthSettles"}

\* C21: no call is retried automatically.  The effect of a mount issues
\* exactly one getSession call, awaited on a miss and in the background on a
\* hit, and whatever the reply no further one is issued for that mount; no
\* turn that handles a reply issues a call; a form submission issues at most
\* one call (none when a field is empty) and a sign-out exactly one.
C21_NoAutomaticRetries ==
    [][ /\ turn' = "checkSession" =>
              (/\ issued' = 1
               /\ getSessionCall' =
                      (IF CacheHit(storage, now) THEN "background" ELSE "awaited"))
        /\ getSessionCalls' = (IF getSessionCall' = "idle" THEN 0 ELSE 1)
        /\ turn' \in ReplyTurns => issued' = 0
        /\ turn' = "handleSubmit" =>
              (/\ issued' <= 1
               /\ issued' = 1 <=> submitCall' # "idle")
        /\ turn' = "handleSignOut" => (issued' = 1 /\ signOutCall' = "pending")
      ]_vars

\* A rejected getSession call has been handled and none was issued again.
C21_Witness ==
    /\ turn = "AwaitedReply"
    /\ lastReply.kind = "rejected"
    /\ status = "error"
    /\ getSessionCalls = 1
    /\ issued = 0

\* C22: once a sign-out has succeeded and removed the cache key, no later
\* step of the same mount writes the key again; a background revalidation
\* replying after the sign-out does not re-create the snapshot.
C22_NoWriteAfterSignOut ==
    [][ signOutCall = "ok" => storage' = NoItem ]_vars

\* C23: a failing cache write does not change the outcome of session
\* resolution: when the awaited getSession call replies with an active
\* session while mounted and the write of the snapshot throws, the gate
\* still ends in status 'ready' with that session and no error message.
C23_WriteFailureHarmless ==
    [][ ( /\ turn' = "AwaitedReply"
          /\ isActive
          /\ lastReply'.kind = "resolved"
          /\ ~Truthy(lastReply'.error)
          /\ Truthy(lastReply'.session)
          /\ setItemThrew' )
        => ( /\ status' = "ready"
             /\ session' = lastReply'.session
             /\ error' = Null )
      ]_vars

\* C24: a get-current-session reply that arrives after the unmount has no
\* external effect: it assigns no location and writes nothing to the cache
\* key, on the awaited path and on the background path alike.
C24_NoEffectAfterUnmount ==
    [][ (lifecycle = "unmounted" /\ GetSessionReplyArrives) =>
          UNCHANGED <<location, storage>> ]_vars

\* The background call replied with a session newer than the snapshot after
\* the unmount; the snapshot is still the one read at mount.
C24_Witness ==
    /\ lifecycle = "unmounted"
    /\ turn = "BackgroundReply"
    /\ lastReply.kind = "resolved"
    /\ lastReply.session \in Sessions
    /\ storage.kind = "object"
    /\ storage.session # lastReply.session
    /\ storage.timestamp < now
    /\ location = NoNavigation

\* C25: in every reachable state of the gate, status 'ready' comes with a
\* stored session that is neither null nor undefined, and status 'error'
\* with an error message; through the resolution of the mount, by a cache
\* hit or by the awaited call, and through any sequence of sign-out attempts.
C25_StatusCarriesItsData ==
    /\ status = "ready" => session \notin {Null, Undefined}
    /\ status = "error" => error # Null

\* The mount was resolved by the awaited call, then a sign-out attempt
\* failed and the view is back to 'ready' with the resolved session.
C25_Witness ==
    /\ turn = "signOutSettles"
    /\ signOutCall \in {"error", "rejected"}
    /\ status = "ready"
    /\ lastReply.kind = "resolved"
    /\ session = lastReply.session
    /\ session \in Sessions
    /\ storage = JSONstringify(session, storage.timestamp)

====
